---- MODULE Spec2Model ----
(***************************************************************************)
(* Model of project_to_csv.py: one run of the burndown report script.      *)
(*                                                                         *)
(* Strings are sequences of one-character strings.  Python None is the     *)
(* empty tuple None; an optional value v that is present is Some(v).       *)
(* Points (Python floats) are exact decimals, kept as integers in units of *)
(* 1/Scale; quotients are kept as fractions <<numerator, denominator>>.    *)
(* Calendar dates are day numbers.                                         *)
(***************************************************************************)
EXTENDS Integers, Sequences, FiniteSets, TLC

\* ------------------------------------------------------------------ bounds
\* longest task title enumerated for the estimate extractor
MaxTitleLen == 4
\* most tasks in one project
MaxTasks == 2
\* calendar days 1..MaxDay are the dates a run can see
MaxDay == 3
\* most tags on a task enumerated for the estimate extractor
MaxTags == 2

\* ------------------------------------------------------------ basic values
None == <<>>
Some(v) == <<v>>

RECURSIVE Pow10(_)
Pow10(n) == IF n = 0 THEN 1 ELSE 10 * Pow10(n - 1)

\* decimal places kept: the most a number in a title of MaxTitleLen
\* characters can have, after "[" and "."
Places == MaxTitleLen - 2
\* one point, in the integer unit used for floats
Scale == Pow10(Places)

Digits == {"0", "1", "2", "3", "4", "5", "6", "7", "8", "9"}
DigitVal(c) ==
  CASE c = "0" -> 0 [] c = "1" -> 1 [] c = "2" -> 2 [] c = "3" -> 3
    [] c = "4" -> 4 [] c = "5" -> 5 [] c = "6" -> 6 [] c = "7" -> 7
    [] c = "8" -> 8 [] c = "9" -> 9

\* \s of the regular expressions, over the characters modelled
Whitespace == {" "}
\* the character class [-:|/\s] of pattern_estimate
Separators == {"-", ":", "|", "/"} \cup Whitespace

\* position of the first character at or after i that is not in S
RECURSIVE SkipSet(_, _, _)
SkipSet(s, i, S) ==
  IF i <= Len(s) /\ s[i] \in S THEN SkipSet(s, i + 1, S) ELSE i

At(s, i) == IF i >= 1 /\ i <= Len(s) THEN s[i] ELSE ""

\* --------------------------------------------------------------- float()
RECURSIVE IntOf(_)
IntOf(ds) ==
  IF ds = <<>> THEN 0
  ELSE 10 * IntOf(SubSeq(ds, 1, Len(ds) - 1)) + DigitVal(ds[Len(ds)])

\* float(s), for strings of the characters modelled, raises ValueError
\* unless s is digits with at most one '.', and at least one digit
FloatOk(s) ==
  /\ \A i \in 1..Len(s) : s[i] \in Digits \cup {"."}
  /\ Cardinality({i \in 1..Len(s) : s[i] = "."}) <= 1
  /\ \E i \in 1..Len(s) : s[i] \in Digits

FloatVal(s) ==
  LET dot  == SkipSet(s, 1, Digits)
      whole == SubSeq(s, 1, dot - 1)
      frac  == SubSeq(s, dot + 1, Len(s))
  IN IntOf(whole) * Scale + IntOf(frac) * Pow10(Places - Len(frac))

\* ------------------------------------------------------ pattern_estimate
\* '^\s*\[\s*(\?|\d+\.?\d*|\.?\d+)(?:[-:|/\s]+(\d*\.?\d*))?'
\* end (exclusive) of group 1 starting at i, or 0 when no alternative matches
Group1End(s, i) ==
  IF At(s, i) = "?" THEN i + 1
  ELSE IF At(s, i) \in Digits
    THEN LET d == SkipSet(s, i, Digits)
             e == IF At(s, d) = "." THEN d + 1 ELSE d
         IN SkipSet(s, e, Digits)
  ELSE IF At(s, i) = "." /\ At(s, i + 1) \in Digits
    THEN SkipSet(s, i + 1, Digits)
  ELSE 0

\* end (exclusive) of \d*\.?\d* starting at i
Group2End(s, i) ==
  LET d == SkipSet(s, i, Digits)
      e == IF At(s, d) = "." THEN d + 1 ELSE d
  IN SkipSet(s, e, Digits)

NoMatch == [matched |-> FALSE, group1 |-> <<>>, group2 |-> None]

\* re.search(pattern_estimate, name): the match object, groups as strings;
\* group2 is None when the optional part did not take part in the match
pattern_estimate(name) ==
  LET lb == SkipSet(name, 1, Whitespace)
      g1 == SkipSet(name, lb + 1, Whitespace)
      e1 == Group1End(name, g1)
      g2 == SkipSet(name, e1, Separators)
  IN IF At(name, lb) # "[" \/ e1 = 0 THEN NoMatch
     ELSE [matched |-> TRUE,
           group1  |-> SubSeq(name, g1, e1 - 1),
           group2  |-> IF g2 > e1
                       THEN Some(SubSeq(name, g2, Group2End(name, g2) - 1))
                       ELSE None]

\* ------------------------------------------------------------------ tags
Str_pts == <<"p", "t", "s">>
endswith(s, suffix) ==
  Len(s) >= Len(suffix) /\ SubSeq(s, Len(s) - Len(suffix) + 1, Len(s)) = suffix

\* workspace specific tag names (the keys of TAGS)
TAGS == {<<"P", "0">>, <<"P", "1">>, <<"P", "2">>}

\* --------------------------------------------------------- time estimation
Points(e, a) == [err |-> "", estimated |-> e, actual |-> a]
Raised(name) == [err |-> name, estimated |-> 0, actual |-> 0]

\* faulty variant: the first tag ending in 'pts' wins: the loop stops at it
RECURSIVE PtsLoop_FirstWins(_, _)
PtsLoop_FirstWins(tags, cur) ==
  IF tags = <<>> THEN cur
  ELSE LET name == Head(tags)
           prefix == SubSeq(name, 1, Len(name) - 3)
       IN IF endswith(name, <<"p", "t", "s">>)
          THEN IF FloatOk(prefix)
               THEN [err |-> "", estimated |-> FloatVal(prefix), actual |-> FloatVal(prefix)]
               ELSE [err |-> "ValueError", estimated |-> 0, actual |-> 0]
          ELSE PtsLoop_FirstWins(Tail(tags), cur)

\* the loop "for tag in task['tags']: if endswith('pts'): estimated = actual = float(...)"
\* run from the value cur; every matching tag overwrites the value
RECURSIVE PtsLoop(_, _)
PtsLoop(tags, cur) ==
  IF tags = <<>> \/ cur.err # "" THEN cur
  ELSE LET name == Head(tags)
           prefix == SubSeq(name, 1, Len(name) - 3)
       IN IF endswith(name, Str_pts)
          THEN IF FloatOk(prefix)
               THEN PtsLoop(Tail(tags), Points(FloatVal(prefix), FloatVal(prefix)))
               ELSE Raised("ValueError")
          ELSE PtsLoop(Tail(tags), cur)

\* actual = float(match.group(2) or fallback): an empty or absent group 2 is
\* falsy, anything else goes to float()
ActualOf(group2, fallback) ==
  IF group2 = None \/ group2 = Some(<<>>) THEN Points(0, fallback)
  ELSE IF FloatOk(group2[1]) THEN Points(0, FloatVal(group2[1]))
  ELSE Raised("ValueError")

\* lines 131-146: (estimated, actual) of one task, or the exception raised
Estimate(name, tags, completed, default_estimate) ==
  LET match == pattern_estimate(name)
  IN IF match.matched
     THEN LET estimated == IF match.group1 = <<"?">> THEN 0
                           ELSE FloatVal(match.group1)
              act == ActualOf(match.group2, IF completed THEN estimated ELSE 0)
          IN IF act.err # "" THEN act ELSE Points(estimated, act.actual)
     ELSE PtsLoop(tags, Points(default_estimate, default_estimate))

\* --------------------------------------------------------------- dicts
\* collections.defaultdict(float): a missing key reads as 0
Get(d, k) == IF k \in DOMAIN d THEN d[k] ELSE 0
\* d[k] += v (a read of d[k] is d[k] += 0: it inserts the key)
Add(d, k, v) == [y \in DOMAIN d \cup {k} |-> IF y = k THEN Get(d, k) + v ELSE d[y]]
EmptyDict == [y \in {} |-> 0]
\* the nested defaultdict points_completed_by_date_tag
Get2(d, k, t) == IF k \in DOMAIN d THEN Get(d[k], t) ELSE 0
Add2(d, k, t, v) ==
  [y \in DOMAIN d \cup {k} |->
     IF y = k THEN Add(IF k \in DOMAIN d THEN d[k] ELSE EmptyDict, t, v) ELSE d[y]]

\* fractions <<numerator, denominator>>, denominator > 0
Frac(n, d) == <<n, d>>
FracLeq(a, b) == a[1] * b[2] <= b[1] * a[2]
FracEq(a, b) == a[1] * b[2] = b[1] * a[2]

\* round(100.0 * n / d, 2) for n >= 0, d > 0, in hundredths of a percent
Percent(n, d) == (2 * 10000 * n + d) \div (2 * d)

\* ---------------------------------------------------------------- inputs
Days == 1..MaxDay
P1 == <<"P", "1">>
Tag_2pts == <<"2", "p", "t", "s">>
Tag_5pts == <<"5", "p", "t", "s">>
Tag_pts == <<"p", "t", "s">>

Task(name, completed, completed_at, tags) ==
  [name |-> name, completed |-> completed, completed_at |-> completed_at,
   tags |-> tags, assignee |-> None, created_at |-> 1, due_on |-> None]

\* the tasks of a whole run: "[3" tagged P1 (estimate only), "[1:2"
\* (estimate and actual) and "x" (no annotation), each not completed or
\* completed on one of the days
RunShapes ==
  {<<<<"[", "3">>, <<P1>>>>, <<<<"[", "1", ":", "2">>, <<>>>>, <<<<"x">>, <<>>>>}
\* a task is completed exactly when it has a completion date
RunTasks ==
  {Task(sh[1], FALSE, None, sh[2]) : sh \in RunShapes}
  \cup {Task(sh[1], TRUE, Some(d), sh[2]) : sh \in RunShapes, d \in Days}

\* the task lists a project can hold
RECURSIVE SeqsUpTo(_, _)
SeqsUpTo(S, n) ==
  IF n = 0 THEN {<<>>}
  ELSE LET shorter == SeqsUpTo(S, n - 1)
       IN shorter \cup {Append(q, e) : q \in {r \in shorter : Len(r) = n - 1}, e \in S}

Arguments(input, projectid, key, default_estimate) ==
  [input |-> input, projectid |-> projectid, key |-> key,
   default_estimate |-> default_estimate]

\* the command lines and environments (ASANA_API_KEY) of a run: a file with
\* the key as a flag; a file and a project without any key; a key (flag and
\* environment) without file or project; nothing at all
Configs ==
  {<<Arguments(Some("project.json"), None, Some("k"), 0), None>>,
   <<Arguments(Some("project.json"), Some("42"), None, 0), None>>,
   <<Arguments(None, None, Some("k"), 2 * Scale), Some("k")>>,
   <<Arguments(None, None, None, 0), None>>}

\* the command lines of the runs that reach the task loop, for the estimate
\* extractor: from a file or from the API, --default_estimate 0 or 2
ExtractConfigs ==
  {<<Arguments(Some("project.json"), None, Some("k"), 0), None>>,
   <<Arguments(None, Some("42"), None, 2 * Scale), Some("k")>>}

\* ----------------------------------------------------------------- state
VARIABLES
  pc,                 \* position of the script
  args, environ,      \* parsed command line, ASANA_API_KEY of the environment
  tasks, task_idx,    \* the loaded tasks, and how many the loop has processed
  start_date, end_date, today,
  points_estimated, points_actual,
  estimated_points_completed, actual_points_completed,
  estimated_by_tag, actual_by_tag,
  points_completed_by_date, points_completed_by_date_actual,
  points_completed_by_date_tag,
  tasks_list, burndown,
  days, points_remaining, points_remaining_actual,
  estimated_by_tag_remaining, current_date, days_remaining, tags,
  files,              \* files written: name -> rows
  stdout,             \* what the run printed
  io,                 \* the run's reads, fetches, writes and exits, in order
  exit_status         \* None while running; Some(code) once the process ended

aggregates ==
  <<points_estimated, points_actual, estimated_points_completed,
    actual_points_completed, estimated_by_tag, actual_by_tag,
    points_completed_by_date, points_completed_by_date_actual,
    points_completed_by_date_tag>>
loop_vars ==
  <<days, points_remaining, points_remaining_actual, estimated_by_tag_remaining,
    current_date, days_remaining, tags>>
inputs == <<args, environ, tasks, start_date, end_date>>
vars ==
  <<pc, inputs, task_idx, today, aggregates, tasks_list, burndown, loop_vars,
    files, stdout, io, exit_status>>

\* lines 40-54: the state before the first check
Start(a, e) ==
  /\ pc = "check_input"
  /\ args = a /\ environ = e
  /\ tasks = <<>> /\ task_idx = 0
  /\ start_date = 0 /\ end_date = 0 /\ today = 0
  /\ points_estimated = 0 /\ points_actual = 0
  /\ estimated_points_completed = 0 /\ actual_points_completed = 0
  /\ estimated_by_tag = EmptyDict /\ actual_by_tag = EmptyDict
  /\ points_completed_by_date = EmptyDict
  /\ points_completed_by_date_actual = EmptyDict
  /\ points_completed_by_date_tag = EmptyDict
  /\ tasks_list = << <<"assignee", "task", "estimated", "actual", "created at",
                       "due on", "completed at">> >>
  /\ burndown = <<>>
  /\ days = 0 /\ points_remaining = 0 /\ points_remaining_actual = 0
  /\ estimated_by_tag_remaining = EmptyDict
  /\ current_date = 0 /\ days_remaining = 0 /\ tags = <<>>
  /\ files = EmptyDict
  /\ stdout = <<>> /\ io = <<>>
  /\ exit_status = None

Init == \E c \in Configs : Start(c[1], c[2])

\* an uncaught exception: traceback, exit status 1
Raise(name) ==
  /\ pc' = name
  /\ exit_status' = Some(1)
  /\ io' = Append(io, "exit")

\* line 56: neither --input nor --projectid
MissingSource == args.input = None /\ args.projectid = None

\* lines 56-58
CheckInput ==
  /\ pc = "check_input"
  /\ IF MissingSource
     THEN /\ stdout' = Append(stdout, <<"An input file or Asana project ID must be specified.">>)
          /\ pc' = "exit"
          /\ exit_status' = Some(2)
          /\ io' = Append(io, "exit")
     ELSE /\ pc' = "check_key"
          /\ UNCHANGED <<stdout, exit_status, io>>
  /\ UNCHANGED <<inputs, task_idx, today, aggregates, tasks_list, burndown,
                 loop_vars, files>>

\* faulty variant: the key is only asked for when the tasks come from the API
MissingKey_ApiOnly == args.input = None /\ args.key = None /\ environ = None

\* lines 63-65: no --key and no ASANA_API_KEY
MissingKey == args.key = None /\ environ = None

\* lines 63-69
CheckKey ==
  /\ pc = "check_key"
  /\ IF MissingKey
     THEN /\ stdout' = Append(stdout, <<"Please set ASANA_API_KEY">>)
          /\ pc' = "exit"
          /\ exit_status' = Some(2)
          /\ io' = Append(io, "exit")
     ELSE /\ pc' = "load"
          /\ UNCHANGED <<stdout, exit_status, io>>
  /\ UNCHANGED <<inputs, task_idx, today, aggregates, tasks_list, burndown,
                 loop_vars, files>>

\* lines 71-108: the tasks come from the JSON file, or else from the API; the
\* sprint dates from the flags, the prompt or the project's name
LoadTasks ==
  /\ pc = "load"
  /\ \E ts \in SeqsUpTo(RunTasks, MaxTasks), s \in Days, e \in Days :
       /\ tasks' = ts
       /\ start_date' = s
       /\ end_date' = e
  /\ io' = Append(io, IF args.input # None THEN "read" ELSE "fetch")
  /\ stdout' = IF args.input # None THEN stdout
               ELSE Append(stdout, <<"Gathering tasks from">>)
  /\ pc' = "process"
  /\ UNCHANGED <<args, environ, task_idx, today, aggregates, tasks_list,
                 burndown, loop_vars, files, exit_status>>

\* lines 149-153: the first tag of the task that is a key of TAGS
RECURSIVE TagOf(_)
TagOf(task_tags) ==
  IF task_tags = <<>> THEN None
  ELSE IF Head(task_tags) \in TAGS THEN Head(task_tags)
  ELSE TagOf(Tail(task_tags))

\* lines 111-168: one iteration of the loop over the tasks (the titles
\* modelled are ASCII, which encode('ascii', 'replace') leaves as they are)
ProcessTask ==
  /\ pc = "process"
  /\ task_idx < Len(tasks)
  /\ LET task == tasks[task_idx + 1]
         completed == task.completed
         completed_at == task.completed_at
         r == Estimate(task.name, task.tags, completed, args.default_estimate)
         tag == TagOf(task.tags)
     IN IF r.err # ""
        THEN /\ Raise(r.err)
             /\ UNCHANGED <<task_idx, aggregates, tasks_list>>
        ELSE /\ estimated_by_tag' = Add(estimated_by_tag, tag, r.estimated)
             /\ actual_by_tag' = Add(actual_by_tag, tag, r.actual)
             /\ IF completed
                THEN /\ estimated_points_completed' = estimated_points_completed + r.estimated
                     /\ actual_points_completed' = actual_points_completed + r.actual
                     /\ points_completed_by_date' =
                          Add(points_completed_by_date, completed_at, r.estimated)
                     /\ points_completed_by_date_tag' =
                          Add2(points_completed_by_date_tag, completed_at, tag, r.estimated)
                     /\ points_completed_by_date_actual' =
                          Add(points_completed_by_date_actual, completed_at, r.actual)
                ELSE UNCHANGED <<estimated_points_completed, actual_points_completed,
                                 points_completed_by_date, points_completed_by_date_tag,
                                 points_completed_by_date_actual>>
             /\ points_estimated' = points_estimated + r.estimated
             /\ points_actual' = points_actual + r.actual
             /\ tasks_list' = Append(tasks_list,
                  <<task.assignee, task.name, Some(r.estimated), Some(r.actual),
                    Some(task.created_at), task.due_on, completed_at>>)
             /\ task_idx' = task_idx + 1
             /\ UNCHANGED <<pc, exit_status, io>>
  /\ UNCHANGED <<inputs, today, burndown, loop_vars, files, stdout>>

\* lines 170-173
WriteTasksCsv ==
  /\ pc = "process"
  /\ task_idx = Len(tasks)
  /\ files' = [f \in DOMAIN files \cup {"tasks.csv"} |->
                 IF f = "tasks.csv" THEN tasks_list ELSE files[f]]
  /\ io' = Append(io, "write")
  /\ pc' = "burndown"
  /\ UNCHANGED <<inputs, task_idx, today, aggregates, tasks_list, burndown,
                 loop_vars, stdout, exit_status>>

\* line 185: sorted(estimated_by_tag.keys(), key=lambda t: t or 'ZZZ')
TagColumns(keys) ==
  SelectSeq(<<<<"P", "0">>, <<"P", "1">>, <<"P", "2">>, None>>, LAMBDA t : t \in keys)

\* line 223: sorted(set(...)) of Python 2 puts None before every string
TagLines(keys) ==
  SelectSeq(<<None, <<"P", "0">>, <<"P", "1">>, <<"P", "2">>>>, LAMBDA t : t \in keys)

\* faulty variant: a division that never raises (it yields inf or nan instead)
DivisionRaises_Never(divisor) == FALSE

\* Python's n / divisor raises ZeroDivisionError exactly when divisor is 0,
\* for ints and floats alike
DivisionRaises(divisor) == divisor = 0

\* lines 175-186: the set-up of the burndown; the division of line 183 raises
\* when the sprint has no days
BurndownInit ==
  /\ pc = "burndown"
  /\ IF DivisionRaises(end_date - start_date)
     THEN /\ Raise("ZeroDivisionError")
          /\ UNCHANGED <<today, burndown, loop_vars>>
     ELSE /\ days' = end_date - start_date
          /\ points_remaining' = points_estimated
          /\ points_remaining_actual' = points_actual
          /\ estimated_by_tag_remaining' = estimated_by_tag
          /\ current_date' = start_date
          /\ days_remaining' = end_date - start_date
          /\ tags' = TagColumns(DOMAIN estimated_by_tag)
          /\ burndown' = Append(burndown,
               <<"date", "estimated", "actual", "ideal">>
                 \o TagColumns(DOMAIN estimated_by_tag))
          /\ today' \in Days
          /\ pc' = "burndown_loop"
          /\ UNCHANGED <<exit_status, io>>
  /\ UNCHANGED <<inputs, task_idx, aggregates, tasks_list, files, stdout>>

\* faulty variant: the average taken over the days + 1 rows of the sprint
linear_burn_PerRow ==
  IF days_remaining = days THEN <<points_estimated, 1>>
  ELSE <<days_remaining * points_estimated, days + 1>>

\* lines 194-198: avg_points_per_day is points_estimated / days
linear_burn ==
  IF days_remaining = days THEN Frac(points_estimated, 1)
  ELSE Frac(days_remaining * points_estimated, days)

\* lines 191-192 for every tag of estimated_by_tag_remaining
RemainingByTag(day) ==
  [t \in DOMAIN estimated_by_tag_remaining |->
     estimated_by_tag_remaining[t] - Get2(points_completed_by_date_tag, day, t)]

\* lines 200-204: the row of the day
BurndownRow(day, remaining, remaining_actual, by_tag) ==
  IF current_date <= today
  THEN <<day, Some(remaining), Some(remaining_actual), Some(linear_burn)>>
         \o [i \in 1..Len(tags) |-> Some(by_tag[tags[i]])]
  ELSE <<day, None, None, Some(linear_burn)>>

\* the reads of lines 189-192 insert the day (and the tags) they look up
RECURSIVE TouchTags(_, _, _)
TouchTags(d, day, ts) ==
  IF ts = {} THEN d
  ELSE LET t == CHOOSE u \in ts : TRUE
       IN TouchTags(Add2(d, day, t, 0), day, ts \ {t})

\* faulty variant: the row is taken before the day's completions are subtracted
Remaining_BeforeDay(day) == points_remaining

\* line 189
Remaining(day) == points_remaining - Get(points_completed_by_date, day)

\* faulty variant: the actual series subtracts the estimated completions
RemainingActual_Estimated(day) ==
  points_remaining_actual - Get(points_completed_by_date, day)

\* line 190
RemainingActual(day) ==
  points_remaining_actual - Get(points_completed_by_date_actual, day)

\* lines 187-208: one iteration of the loop over the days
BurndownDay ==
  /\ pc = "burndown_loop"
  /\ current_date <= end_date
  /\ LET day == Some(current_date)
         remaining == Remaining(day)
         remaining_actual == RemainingActual(day)
         by_tag == RemainingByTag(day)
     IN /\ points_remaining' = remaining
        /\ points_remaining_actual' = remaining_actual
        /\ estimated_by_tag_remaining' = by_tag
        /\ points_completed_by_date' = Add(points_completed_by_date, day, 0)
        /\ points_completed_by_date_actual' =
             Add(points_completed_by_date_actual, day, 0)
        /\ points_completed_by_date_tag' =
             TouchTags(points_completed_by_date_tag, day,
                       DOMAIN estimated_by_tag_remaining)
        /\ burndown' = Append(burndown,
             BurndownRow(day, remaining, remaining_actual, by_tag))
  /\ days_remaining' = days_remaining - 1
  /\ current_date' = current_date + 1
  /\ UNCHANGED <<pc, inputs, task_idx, today, points_estimated, points_actual,
                 estimated_points_completed, actual_points_completed,
                 estimated_by_tag, actual_by_tag, tasks_list, days, tags,
                 files, stdout, io, exit_status>>

\* lines 210-212
WriteBurndownCsv ==
  /\ pc = "burndown_loop"
  /\ current_date > end_date
  /\ files' = [f \in DOMAIN files \cup {"burndown.csv"} |->
                 IF f = "burndown.csv" THEN burndown ELSE files[f]]
  /\ io' = Append(io, "write")
  /\ pc' = "stats"
  /\ UNCHANGED <<inputs, task_idx, today, aggregates, tasks_list, burndown,
                 loop_vars, stdout, exit_status>>

\* lines 214-221: the division of line 215 raises when nothing was estimated
Stats ==
  /\ pc = "stats"
  /\ IF DivisionRaises(points_estimated)
     THEN /\ Raise("ZeroDivisionError")
          /\ UNCHANGED stdout
     ELSE /\ stdout' = Append(stdout,
               <<"Sprint", start_date, end_date, days, points_estimated,
                 points_actual, estimated_points_completed,
                 Percent(estimated_points_completed, points_estimated),
                 actual_points_completed>>)
          /\ pc' = "tags"
          /\ UNCHANGED <<exit_status, io>>
  /\ UNCHANGED <<inputs, task_idx, today, aggregates, tasks_list, burndown,
                 loop_vars, files>>

\* one line of lines 226-228
TagLine(tag) ==
  <<tag, estimated_by_tag[tag], Percent(estimated_by_tag[tag], points_estimated),
    actual_by_tag[tag], Percent(actual_by_tag[tag], points_actual)>>

\* lines 222-228: "Tags:" and one line per tag; the division by points_actual
\* of the first line raises when no actual points were counted
PrintTags ==
  /\ pc = "tags"
  /\ LET keys == TagLines(DOMAIN estimated_by_tag \cup DOMAIN actual_by_tag)
     IN IF keys # <<>> /\ DivisionRaises(points_actual)
        THEN /\ stdout' = Append(stdout, <<"Tags:">>)
             /\ Raise("ZeroDivisionError")
        ELSE /\ stdout' = Append(stdout,
                  <<"Tags:">> \o [i \in 1..Len(keys) |-> TagLine(keys[i])])
             /\ pc' = "chart"
             /\ UNCHANGED <<exit_status, io>>
  /\ UNCHANGED <<inputs, task_idx, today, aggregates, tasks_list, burndown,
                 loop_vars, files>>

\* lines 230-238: the chart's data, one entry per row of burndown, header
\* included: '_' (None here) unless the row's first cell sorts <= today's date
ChartData ==
  [i \in 1..Len(burndown) |->
     IF i > 1 /\ burndown[i][1][1] <= today THEN burndown[i][2] ELSE None]

PrintChart ==
  /\ pc = "chart"
  /\ stdout' = Append(stdout, <<"Burndown chart:", start_date, end_date, ChartData>>)
  /\ pc' = "done"
  /\ exit_status' = Some(0)
  /\ io' = Append(io, "exit")
  /\ UNCHANGED <<inputs, task_idx, today, aggregates, tasks_list, burndown,
                 loop_vars, files>>

Next ==
  \/ CheckInput
  \/ CheckKey
  \/ LoadTasks
  \/ ProcessTask
  \/ WriteTasksCsv
  \/ BurndownInit
  \/ BurndownDay
  \/ WriteBurndownCsv
  \/ Stats
  \/ PrintTags
  \/ PrintChart

Spec == Init /\ [][Next]_vars
\* ------------------------------------------------- the estimate extractor
\* The time estimation of lines 131-146 on its own: a run that has loaded
\* one task, over every title of up to MaxTitleLen characters.
TitleChars == {"[", "?", "0", "3", ".", ":", " "}
Titles == SeqsUpTo(TitleChars, MaxTitleLen)
\* titles without an annotation, for the tag fallback
PlainTitles == {<<>>, <<"3">>, <<"?", "[">>, <<" ", "3", ":", "3">>}
PtsTagLists == SeqsUpTo({Tag_2pts, Tag_5pts, Tag_pts, P1}, MaxTags)

ExtractTasks ==
  {Task(n, c, IF c THEN Some(1) ELSE None, g) :
     n \in Titles, c \in BOOLEAN, g \in {<<>>, <<Tag_5pts>>}}
  \cup {Task(n, c, IF c THEN Some(1) ELSE None, g) :
     n \in PlainTitles, c \in BOOLEAN, g \in PtsTagLists}

InitExtract ==
  \E c \in ExtractConfigs, t \in ExtractTasks :
    /\ pc = "process"
    /\ args = c[1] /\ environ = c[2]
    /\ tasks = <<t>> /\ task_idx = 0
    /\ start_date = 1 /\ end_date = 2 /\ today = 0
    /\ points_estimated = 0 /\ points_actual = 0
    /\ estimated_points_completed = 0 /\ actual_points_completed = 0
    /\ estimated_by_tag = EmptyDict /\ actual_by_tag = EmptyDict
    /\ points_completed_by_date = EmptyDict
    /\ points_completed_by_date_actual = EmptyDict
    /\ points_completed_by_date_tag = EmptyDict
    /\ tasks_list = << <<"assignee", "task", "estimated", "actual", "created at",
                         "due on", "completed at">> >>
    /\ burndown = <<>>
    /\ days = 0 /\ points_remaining = 0 /\ points_remaining_actual = 0
    /\ estimated_by_tag_remaining = EmptyDict
    /\ current_date = 0 /\ days_remaining = 0 /\ tags = <<>>
    /\ files = EmptyDict
    /\ stdout = <<>>
    /\ io = <<IF args.input # None THEN "read" ELSE "fetch">>
    /\ exit_status = None

NextExtract == ProcessTask

SpecExtract == InitExtract /\ [][NextExtract]_vars
\* ------------------------------------------------------------ properties
\* The annotation of a title, stated without the scanner: the title is
\* whitespace, "[", whitespace, then a first token at position j.
TokenStarts(name) ==
  {j \in 2..Len(name) :
     \E i \in 1..(j - 1) :
       /\ name[i] = "["
       /\ \A k \in 1..(i - 1) : name[k] \in Whitespace
       /\ \A k \in (i + 1)..(j - 1) : name[k] \in Whitespace
       /\ name[j] \notin Whitespace}

\* the longest number that starts at position j (its end, exclusive), j if none
NumberEnd(name, j) ==
  LET ends == {e \in (j + 1)..(Len(name) + 1) : FloatOk(SubSeq(name, j, e - 1))}
  IN IF ends = {} THEN j ELSE CHOOSE e \in ends : \A f \in ends : f <= e

\* the title carries an annotation: its first token is '?' or a number
Annotated(name) ==
  \E j \in TokenStarts(name) : name[j] = "?" \/ NumberEnd(name, j) > j

FirstTokenStart(name) == CHOOSE j \in TokenStarts(name) : TRUE
FirstTokenEnd(name) ==
  LET j == FirstTokenStart(name)
  IN IF name[j] = "?" THEN j + 1 ELSE NumberEnd(name, j)

\* the first number of the annotation ('?' counts 0)
FirstNumber(name) ==
  LET j == FirstTokenStart(name)
  IN IF name[j] = "?" THEN 0 ELSE FloatVal(SubSeq(name, j, FirstTokenEnd(name) - 1))

\* where the second number would start: after one or more separators
SecondStart(name) ==
  LET e == FirstTokenEnd(name)
  IN CHOOSE m \in e..(Len(name) + 1) :
       /\ \A k \in e..(m - 1) : name[k] \in Separators
       /\ (m <= Len(name) => name[m] \notin Separators)

\* the annotation has a second number
HasSecondNumber(name) ==
  /\ SecondStart(name) > FirstTokenEnd(name)
  /\ NumberEnd(name, SecondStart(name)) > SecondStart(name)

SecondNumber(name) ==
  FloatVal(SubSeq(name, SecondStart(name), NumberEnd(name, SecondStart(name)) - 1))

\* the loop over the tasks has dealt with task i (appended its row, or raised)
Processed(i) == task_idx >= i \/ (task_idx = i - 1 /\ exit_status = Some(1))
\* the row of task i in tasks_list
RowOf(i) == tasks_list[i + 1]
RowEstimated(i) == RowOf(i)[3][1]
RowActual(i) == RowOf(i)[4][1]

\* C1: for every task whose title matches the estimate pattern, estimated is
\* 0 for the '?' marker and otherwise the first number; actual is the second
\* number when there is one, otherwise estimated for a completed task and 0
\* for one that is not; tags and the default estimate play no part.
C1_MatchingTitleEstimate ==
  \A i \in 1..Len(tasks) :
    (Processed(i) /\ Annotated(tasks[i].name)) =>
      /\ task_idx >= i
      /\ RowEstimated(i) = FirstNumber(tasks[i].name)
      /\ RowActual(i) =
           IF HasSecondNumber(tasks[i].name) THEN SecondNumber(tasks[i].name)
           ELSE IF tasks[i].completed THEN FirstNumber(tasks[i].name) ELSE 0

\* the part of C1 the code does keep: the same, for titles whose second token
\* is not a lone '.'
LoneDot(name) ==
  /\ SecondStart(name) > FirstTokenEnd(name)
  /\ ~HasSecondNumber(name)
  /\ SecondStart(name) <= Len(name)
  /\ name[SecondStart(name)] = "."
C1_ExceptLoneDot ==
  \A i \in 1..Len(tasks) :
    (Processed(i) /\ Annotated(tasks[i].name)) =>
      IF LoneDot(tasks[i].name) THEN task_idx < i /\ pc = "ValueError"
      ELSE /\ task_idx >= i
           /\ RowEstimated(i) = FirstNumber(tasks[i].name)
           /\ RowActual(i) =
                IF HasSecondNumber(tasks[i].name) THEN SecondNumber(tasks[i].name)
                ELSE IF tasks[i].completed THEN FirstNumber(tasks[i].name) ELSE 0
C1_ScannerAgrees ==
  \A i \in 1..Len(tasks) : pattern_estimate(tasks[i].name).matched = Annotated(tasks[i].name)

\* positions of the tags that end in 'pts'
PtsTags(task_tags) == {k \in 1..Len(task_tags) : endswith(task_tags[k], Str_pts)}
PtsPrefix(tag) == SubSeq(tag, 1, Len(tag) - 3)
FirstPts(task_tags) == CHOOSE k \in PtsTags(task_tags) : \A m \in PtsTags(task_tags) : k <= m
LastPts(task_tags) == CHOOSE k \in PtsTags(task_tags) : \A m \in PtsTags(task_tags) : m <= k

\* C2 as stated: without an annotation and with 'pts' tags, estimated and
\* actual are both the numeric prefix of the first 'pts' tag.
C2_FirstPtsTagWins ==
  \A i \in 1..Len(tasks) :
    (/\ Processed(i)
     /\ ~Annotated(tasks[i].name)
     /\ PtsTags(tasks[i].tags) # {}
     /\ \A k \in PtsTags(tasks[i].tags) : FloatOk(PtsPrefix(tasks[i].tags[k]))) =>
      /\ task_idx >= i
      /\ RowEstimated(i) = FloatVal(PtsPrefix(tasks[i].tags[FirstPts(tasks[i].tags)]))
      /\ RowActual(i) = RowEstimated(i)

\* C2 amended: without an annotation and with 'pts' tags, estimated and
\* actual are both the numeric prefix of the last 'pts' tag; the run stops
\* with a ValueError when the prefix of some 'pts' tag is not a number.
C2_LastPtsTagWins ==
  \A i \in 1..Len(tasks) :
    (Processed(i) /\ ~Annotated(tasks[i].name) /\ PtsTags(tasks[i].tags) # {}) =>
      IF \A k \in PtsTags(tasks[i].tags) : FloatOk(PtsPrefix(tasks[i].tags[k]))
      THEN /\ task_idx >= i
           /\ RowEstimated(i) = FloatVal(PtsPrefix(tasks[i].tags[LastPts(tasks[i].tags)]))
           /\ RowActual(i) = RowEstimated(i)
      ELSE task_idx < i /\ pc = "ValueError"

\* a task without annotation whose two 'pts' tags differ has been given the
\* value of the second
C2_Witness ==
  /\ task_idx = 1
  /\ tasks[1].name = <<"3">>
  /\ tasks[1].tags = <<Tag_2pts, Tag_5pts>>
  /\ RowEstimated(1) = 5 * Scale

\* ---------------------------------------------------- properties of a run
Loaded == Len(io) >= 1 /\ io[1] \in {"read", "fetch"}
AllProcessed == Loaded /\ task_idx = Len(tasks)
Ended == exit_status # None

\* the sum of a sequence of numbers
RECURSIVE SumSeq(_)
SumSeq(q) == IF q = <<>> THEN 0 ELSE Head(q) + SumSeq(Tail(q))

TotalEstimated == SumSeq([i \in 1..Len(tasks) |-> RowEstimated(i)])
TotalActual == SumSeq([i \in 1..Len(tasks) |-> RowActual(i)])

\* task i was completed on one of the days lo..hi
CompletedIn(i, lo, hi) ==
  /\ tasks[i].completed
  /\ tasks[i].completed_at # None
  /\ tasks[i].completed_at[1] \in lo..hi

\* the points of the tasks completed on the days lo..hi
CompletedEstimated(lo, hi) ==
  SumSeq([i \in 1..Len(tasks) |-> IF CompletedIn(i, lo, hi) THEN RowEstimated(i) ELSE 0])
CompletedActual(lo, hi) ==
  SumSeq([i \in 1..Len(tasks) |-> IF CompletedIn(i, lo, hi) THEN RowActual(i) ELSE 0])

\* the rows of the burndown after its header, and their cells
DataRows == 2..Len(burndown)
DateOf(i) == burndown[i][1][1]
RemainingEstimatedOf(i) == burndown[i][2]
RemainingActualOf(i) == burndown[i][3]
IdealOf(i) == burndown[i][4][1]
BurndownBuilt == "burndown.csv" \in DOMAIN files

\* C3 as stated: with start < end and start <= today, the row of the start
\* date carries the total estimated points, whenever tasks were completed.
C3_StartRowIsTotal ==
  (Len(burndown) >= 2 /\ start_date < end_date /\ start_date <= today) =>
    RemainingEstimatedOf(2) = Some(TotalEstimated)

\* C3 amended: with start < end and start <= today, the row of the start date
\* carries the total estimated points less the estimated points of the tasks
\* completed on the start date.
C3_StartRowLessStartDay ==
  (Len(burndown) >= 2 /\ start_date < end_date /\ start_date <= today) =>
    /\ DateOf(2) = start_date
    /\ RemainingEstimatedOf(2) =
         Some(TotalEstimated - CompletedEstimated(start_date, start_date))

\* a start row below the total: a task worth points was completed on the
\* start date, another one before it
C3_Witness ==
  /\ Len(burndown) >= 2 /\ start_date < end_date /\ start_date <= today
  /\ CompletedEstimated(start_date, start_date) > 0
  /\ CompletedEstimated(1, start_date - 1) > 0
  /\ RemainingEstimatedOf(2) # Some(TotalEstimated)

\* C4: every row of a day d <= today carries the total estimated points less
\* the estimated points of the tasks completed from the start date to d, and
\* the same for the actual points; so does the last row, over the whole sprint.
C4_RunningRemaining ==
  /\ \A i \in DataRows :
       DateOf(i) <= today =>
         /\ RemainingEstimatedOf(i) =
              Some(TotalEstimated - CompletedEstimated(start_date, DateOf(i)))
         /\ RemainingActualOf(i) =
              Some(TotalActual - CompletedActual(start_date, DateOf(i)))
  /\ (BurndownBuilt /\ start_date < end_date /\ end_date <= today) =>
       /\ DateOf(Len(burndown)) = end_date
       /\ RemainingEstimatedOf(Len(burndown)) =
            Some(TotalEstimated - CompletedEstimated(start_date, end_date))
       /\ RemainingActualOf(Len(burndown)) =
            Some(TotalActual - CompletedActual(start_date, end_date))

\* a finished burndown up to today, with one task completed before the sprint
\* (never subtracted) and one inside it whose estimate and actual differ
C4_Witness ==
  /\ BurndownBuilt /\ start_date < end_date /\ end_date <= today
  /\ CompletedEstimated(1, start_date - 1) > 0
  /\ CompletedEstimated(start_date + 1, end_date) > 0
  /\ CompletedEstimated(start_date, end_date) # CompletedActual(start_date, end_date)
  /\ RemainingEstimatedOf(Len(burndown)) # Some(0)

\* C5: a row of a day after today carries the ideal value, and null for the
\* remaining estimated, the remaining actual and every tag column, one entry
\* per column of the header; a row of a day up to today carries a remaining
\* estimated and a remaining actual.
C5_FutureRowsAllNull ==
  \A i \in DataRows :
    IF DateOf(i) > today
    THEN /\ burndown[i][4] # None
         /\ RemainingEstimatedOf(i) = None
         /\ RemainingActualOf(i) = None
         /\ Len(burndown[i]) = Len(burndown[1])
         /\ \A k \in 5..Len(burndown[i]) : burndown[i][k] = None
    ELSE /\ RemainingEstimatedOf(i) # None
         /\ RemainingActualOf(i) # None

\* what the code keeps of C5: the first four cells
C5_FirstFourCells ==
  \A i \in DataRows :
    IF DateOf(i) > today
    THEN burndown[i] = <<Some(DateOf(i)), None, None, burndown[i][4]>> /\ burndown[i][4] # None
    ELSE /\ RemainingEstimatedOf(i) # None
         /\ RemainingActualOf(i) # None
         /\ Len(burndown[i]) = Len(burndown[1])

\* C6: with start < end the ideal value of the first row is the total
\* estimated points exactly, that of a later row is its days remaining times
\* total / (end - start), it never increases from a row to the next, and it
\* is 0 on the last day.
C6_IdealSeries ==
  /\ \A i \in DataRows :
       /\ start_date < end_date
       /\ i = 2 => IdealOf(i) = <<TotalEstimated, 1>>
       /\ i > 2 =>
            /\ FracEq(IdealOf(i),
                      Frac((end_date - DateOf(i)) * TotalEstimated,
                           end_date - start_date))
            /\ FracLeq(IdealOf(i), IdealOf(i - 1))
  /\ (BurndownBuilt /\ start_date < end_date) =>
       /\ DateOf(Len(burndown)) = end_date
       /\ FracEq(IdealOf(Len(burndown)), Frac(0, 1))

\* a finished burndown of three days over a total that is not 0
C6_Witness ==
  /\ BurndownBuilt
  /\ Len(burndown) >= 4
  /\ TotalEstimated > 0
  /\ ~FracEq(IdealOf(3), IdealOf(2))
  /\ ~FracEq(IdealOf(3), Frac(0, 1))

\* C7: a sprint whose end is before its start fails with an InvalidRange
\* error, and neither writes the burndown table nor prints the summary; a
\* burndown that is built has one row per day from start to end.
C7_InvalidRangeFails ==
  /\ (Loaded /\ end_date < start_date) =>
       /\ ~BurndownBuilt
       /\ pc \notin {"stats", "tags", "chart", "done"}
       /\ Ended => pc = "InvalidRange"
  /\ (BurndownBuilt /\ end_date >= start_date) =>
       Len(burndown) - 1 = end_date - start_date + 1

\* what the code keeps of C7: a burndown built for start <= end has one row
\* per day
C7_OneRowPerDay ==
  (BurndownBuilt /\ end_date >= start_date) =>
    /\ Len(burndown) - 1 = end_date - start_date + 1
    /\ \A i \in DataRows : DateOf(i) = start_date + (i - 2)

\* C8: a run with neither input file nor project id, or with no API key,
\* exits with status 2 before a task is read or fetched, an aggregate is
\* updated or a file is written.
C8_ConfigurationErrorFirst ==
  (\/ (args.input = None /\ args.projectid = None)
   \/ (args.key = None /\ environ = None)) =>
    /\ pc \in {"check_input", "check_key", "exit"}
    /\ Ended => exit_status = Some(2) /\ io = <<"exit">>
    /\ ~Ended => io = <<>>
    /\ tasks = <<>> /\ task_idx = 0
    /\ points_estimated = 0 /\ points_actual = 0
    /\ estimated_points_completed = 0 /\ actual_points_completed = 0
    /\ estimated_by_tag = EmptyDict /\ actual_by_tag = EmptyDict
    /\ points_completed_by_date = EmptyDict
    /\ points_completed_by_date_actual = EmptyDict
    /\ points_completed_by_date_tag = EmptyDict
    /\ Len(tasks_list) = 1 /\ burndown = <<>>
    /\ files = EmptyDict

\* a run given a file and a project but no key has exited at the key check
C8_Witness ==
  /\ pc = "exit" /\ exit_status = Some(2)
  /\ args.input # None /\ args.projectid # None
  /\ args.key = None /\ environ = None
  /\ stdout = <<<<"Please set ASANA_API_KEY">>>>

\* C9: a sprint with start = end fails with a division by zero when the
\* average is computed, and a run whose total estimated points is 0 fails
\* with one when the percentage is computed (if it got that far); neither
\* ends normally, and no row or summary carries an undefined number.
C9_DivisionByZeroIsFatal ==
  /\ (Loaded /\ start_date = end_date) =>
       /\ pc \in {"process", "burndown", "ZeroDivisionError"}
       /\ Ended => (pc = "ZeroDivisionError" /\ exit_status = Some(1)
                    /\ burndown = <<>> /\ ~BurndownBuilt)
  /\ (AllProcessed /\ TotalEstimated = 0) =>
       /\ pc \in {"process", "burndown", "burndown_loop", "stats", "ZeroDivisionError"}
       /\ Ended => (pc = "ZeroDivisionError" /\ exit_status = Some(1))
       /\ (Ended /\ start_date # end_date) => (BurndownBuilt /\ stdout = <<>>)
  /\ \A i \in DataRows : burndown[i][4] # None /\ IdealOf(i)[2] # 0
  /\ pc = "done" => (start_date # end_date /\ TotalEstimated # 0)

\* a run over tasks without points has written the burndown (all zeros) and
\* failed at the percentage
C9_Witness ==
  /\ pc = "ZeroDivisionError"
  /\ Len(tasks) >= 1 /\ TotalEstimated = 0
  /\ start_date < end_date
  /\ BurndownBuilt /\ Len(burndown) >= 3
  /\ stdout = <<>>

\* C10: a run with start < end and a total estimated that is not 0 meets
\* no division by zero, also when the total actual is 0.
C10_NoOtherDivisionByZero ==
  (AllProcessed /\ start_date < end_date /\ TotalEstimated # 0) =>
    pc # "ZeroDivisionError"

\* what the code keeps of C10: the same, for a total actual that is not 0
C10_UnlessActualIsZero ==
  (AllProcessed /\ start_date < end_date /\ TotalEstimated # 0 /\ TotalActual # 0) =>
    pc # "ZeroDivisionError"
====
